---- MODULE Spec2Model ----
(***************************************************************************)
(* Capture/recognize polling loop of the webcam object-recognition page:   *)
(* the WebcamCapture component (capture session: timer, camera readiness,  *)
(* start/stop/toggle, acquire-and-recognize) and the App coordinator that  *)
(* owns the isCapturing flag and the displayed results.                    *)
(*                                                                         *)
(* React scheduling as the code relies on it (React 18, createRoot):       *)
(*  - a setState call queues an update; the committed value, which every   *)
(*    callback closure reads, changes only at the next render;             *)
(*  - a click is a discrete event: the updates its handler queues are      *)
(*    rendered, and the effects of that render run, before any other task; *)
(*  - updates queued by a promise callback (camera, HTTP response) or by   *)
(*    an effect are rendered in a later task (action Render);              *)
(*  - a render runs the cleanups of the effects whose dependencies         *)
(*    changed, then the effects, in declaration order;                     *)
(*  - an unmount runs every cleanup with the closure of the last committed *)
(*    render and drops the component's state and queued updates.           *)
(***************************************************************************)
EXTENDS Integers, Sequences, FiniteSets, TLC

\* ------------------------------------------------------------------ bounds
MaxTimerId  == 3   \* interval ids in use or referenced at once
MaxInFlight == 2   \* recognition requests awaited at once

\* --------------------------------------------------------------- constants
Null    == 0         \* captureInterval: null (timer ids are positive)
NoFrame == "null"    \* getScreenshot() returning null
NoError == "null"    \* App error state: null
Frames  == {"jpeg"}  \* a captured frame; its content is opaque to the client

WebcamMsg   == "Failed to access webcam"
InvalidMsg  == "Invalid response from recognition service"
NetworkMsg  == "Network Error"

Cat == [name |-> "cat", confidence |-> 92000]
Dog == [name |-> "dog", confidence |-> 49999]
ObjectLists == {<<>>, <<Dog, Cat>>}

\* What the awaited axios.post can settle with.
Responses ==
    {[kind |-> "objects", objects |-> l] : l \in ObjectLists}
        \cup {[kind |-> "wrongField", objects |-> <<>>],   \* data without objects
              [kind |-> "noData", objects |-> <<>>],       \* empty body
              [kind |-> "rejected", objects |-> <<>>]}     \* transport failure

CameraErrorNames == {"NotAllowedError", "NotFoundError", "NotReadableError", "Other"}

VARIABLES
    \* App (coordinator) committed state
    recognizedObjects, isRecognizing, error, isCapturing,
    \* WebcamCapture committed state and refs
    mounted, captureInterval, isCameraReady, isCapturingRef,
    \* queued setState updates, one <<>> or <<value>> per state variable
    pending,
    \* platform: camera stream, scheduled intervals, awaited requests
    hasUserMedia, timers, orphans, inFlight,
    \* the last task run: its operation and the calls it made, in order
    last,
    \* the detection list of the last request that completed with success
    lastDelivered

vars == <<recognizedObjects, isRecognizing, error, isCapturing,
          mounted, captureInterval, isCameraReady, isCapturingRef,
          pending, hasUserMedia, timers, orphans, inFlight, last,
          lastDelivered>>

NoPending ==
    [recognizedObjects |-> <<>>, isRecognizing |-> <<>>, error |-> <<>>,
     isCapturing |-> <<>>, captureInterval |-> <<>>, isCameraReady |-> <<>>]

\* The state as one record, so that a handler is a function from state to state.
Cur ==
    [recognizedObjects |-> recognizedObjects, isRecognizing |-> isRecognizing,
     error |-> error, isCapturing |-> isCapturing, mounted |-> mounted,
     captureInterval |-> captureInterval, isCameraReady |-> isCameraReady,
     isCapturingRef |-> isCapturingRef, pending |-> pending,
     hasUserMedia |-> hasUserMedia, timers |-> timers, orphans |-> orphans,
     inFlight |-> inFlight, lastDelivered |-> lastDelivered,
     calls |-> <<>>, overflow |-> FALSE]

NoInfo == [idx |-> 0, kind |-> ""]

Become(s, op, info) ==
    /\ ~s.overflow
    /\ Len(s.inFlight) <= MaxInFlight
    /\ recognizedObjects' = s.recognizedObjects
    /\ isRecognizing' = s.isRecognizing
    /\ error' = s.error
    /\ isCapturing' = s.isCapturing
    /\ mounted' = s.mounted
    /\ captureInterval' = s.captureInterval
    /\ isCameraReady' = s.isCameraReady
    /\ isCapturingRef' = s.isCapturingRef
    /\ pending' = s.pending
    /\ hasUserMedia' = s.hasUserMedia
    /\ timers' = s.timers
    /\ orphans' = s.orphans
    /\ inFlight' = s.inFlight
    /\ lastDelivered' = s.lastDelivered
    /\ last' = [op |-> op, calls |-> s.calls,
                wasCapturing |-> isCapturing, wasReady |-> isCameraReady,
                idx |-> info.idx, kind |-> info.kind]

Call(s, c) == [s EXCEPT !.calls = Append(@, c)]

SetState(s, v, x) == [s EXCEPT !.pending[v] = <<x>>]

\* ------------------------------------------------------------ App handlers
handleObjectsRecognized(s, objects) ==
    SetState(SetState(Call(s, "onObjectsRecognized"),
                      "recognizedObjects", objects), "isRecognizing", FALSE)

handleRecognitionStart(s) ==
    SetState(SetState(Call(s, "onRecognitionStart"),
                      "isRecognizing", TRUE), "error", NoError)

\* Mutant of handleError: an error also empties the detection list.
handleErrorClearsObjects(s, msg) ==
    SetState(SetState(SetState(Call(s, "onError"), "error", msg),
                      "isRecognizing", FALSE), "recognizedObjects", <<>>)

handleError(s, msg) ==
    SetState(SetState(Call(s, "onError"), "error", msg), "isRecognizing", FALSE)

handleStartCapture(s) == SetState(Call(s, "onStartCapture"), "isCapturing", TRUE)

handleStopCapture(s) == SetState(Call(s, "onStopCapture"), "isCapturing", FALSE)

\* --------------------------------------------------------------- presenter
\* Confidence is a fraction of 1 counted in units of 0.00001.
HighThreshold == 80000
MediumThreshold == 50000

\* Mutant of getConfidenceColor: the thresholds are exclusive.
getConfidenceColorExclusive(confidence) ==
    IF confidence > HighThreshold THEN "high-confidence"
    ELSE IF confidence > MediumThreshold THEN "medium-confidence"
    ELSE "low-confidence"

getConfidenceColor(confidence) ==
    IF confidence >= HighThreshold THEN "high-confidence"
    ELSE IF confidence >= MediumThreshold THEN "medium-confidence"
    ELSE "low-confidence"

\* (confidence * 100).toFixed(1): the percentage rounded to tenths, as a number
\* of tenths of a percent.
formatConfidence(confidence) == (confidence + 50) \div 100

\* Mutant of ObjectRecognition: the list is shown last element first.
ObjectRecognitionReversed(objects) ==
    [placeholder |-> Len(objects) = 0,
     items |-> [i \in 1..Len(objects) |->
                  LET obj == objects[Len(objects) + 1 - i]
                  IN  [name |-> obj.name,
                       class |-> getConfidenceColor(obj.confidence),
                       width |-> obj.confidence,
                       text |-> formatConfidence(obj.confidence)]],
     count |-> Len(objects)]

\* What the presenter renders: the placeholder for an empty list, else one
\* item per element in the list's order (width in units of 0.001 %).
ObjectRecognition(objects) ==
    [placeholder |-> Len(objects) = 0,
     items |-> [i \in 1..Len(objects) |->
                  LET obj == objects[i]
                  IN  [name |-> obj.name,
                       class |-> getConfidenceColor(obj.confidence),
                       width |-> obj.confidence,
                       text |-> formatConfidence(obj.confidence)]],
     count |-> Len(objects)]

\* The results section of the coordinator's render.
ResultsSection(s) ==
    [error |-> s.error,
     recognizing |-> s.isRecognizing,
     \* while recognizing, the message replaces the presenter
     results |-> IF s.isRecognizing
                 THEN [placeholder |-> FALSE, items |-> <<>>, count |-> 0]
                 ELSE ObjectRecognition(s.recognizedObjects)]

\* ------------------------------------------------------------------ timers
\* Interval ids are fresh: the id handed out is one that no scheduled interval
\* has and that no state, queued update or closure still refers to.
Referenced(s) ==
    {t.id : t \in s.timers \cup s.orphans}
        \cup {s.captureInterval}
        \cup {s.pending.captureInterval[i] : i \in 1..Len(s.pending.captureInterval)}

FreeIds(s) == (1..MaxTimerId) \ Referenced(s)

nextTimer(s) ==
    IF FreeIds(s) = {} THEN MaxTimerId + 1
    ELSE CHOOSE id \in FreeIds(s) : \A other \in FreeIds(s) : id <= other

setInterval(s, kind) ==
    [Call(s, "setInterval") EXCEPT
        !.timers = @ \cup {[id |-> nextTimer(s), kind |-> kind]},
        !.overflow = @ \/ nextTimer(s) > MaxTimerId]

clearInterval(s, id) ==
    [Call(s, "clearInterval") EXCEPT
        !.timers = {t \in @ : t.id # id},
        !.orphans = {t \in @ : t.id # id}]

\* ----------------------------------------------------- captureAndRecognize
\* Mutant of captureAndRecognize: a missing frame is reported as an error.
captureAndRecognizeReportsNoFrame(s, frame) ==
    LET s1 == Call(s, "captureAndRecognize") IN
    IF ~s1.mounted THEN s1
    ELSE IF ~s1.isCapturingRef THEN s1
    ELSE LET s2 == Call(s1, "getScreenshot")
             imageSrc == IF s2.hasUserMedia THEN frame ELSE NoFrame
         IN  IF imageSrc = NoFrame
             THEN handleError(Call(s2, "logger.warn"), WebcamMsg)
             ELSE LET s3 == handleRecognitionStart(s2)
                  IN  [Call(s3, "post") EXCEPT !.inFlight = Append(@, imageSrc)]

\* Mutant of captureAndRecognize: the request is sent without telling the
\* coordinator that a recognition started.
captureAndRecognizeSkipsStart(s, frame) ==
    LET s1 == Call(s, "captureAndRecognize") IN
    IF ~s1.mounted THEN s1
    ELSE IF ~s1.isCapturingRef THEN s1
    ELSE LET s2 == Call(s1, "getScreenshot")
             imageSrc == IF s2.hasUserMedia THEN frame ELSE NoFrame
         IN  IF imageSrc = NoFrame THEN Call(s2, "logger.warn")
             ELSE [Call(s2, "post") EXCEPT !.inFlight = Append(@, imageSrc)]

\* Up to the awaited axios.post; the rest of the function is Complete.
captureAndRecognize(s, frame) ==
    LET s1 == Call(s, "captureAndRecognize") IN
    IF ~s1.mounted THEN s1                      \* webcamRef.current is null
    ELSE IF ~s1.isCapturingRef THEN s1
    ELSE LET s2 == Call(s1, "getScreenshot")
             imageSrc == IF s2.hasUserMedia THEN frame ELSE NoFrame
         IN  IF imageSrc = NoFrame THEN Call(s2, "logger.warn")
             ELSE LET s3 == handleRecognitionStart(s2)
                  IN  [Call(s3, "post") EXCEPT !.inFlight = Append(@, imageSrc)]

\* Mutant of completeRecognition: a result is applied only when no later
\* request is in flight, as a sequence guard on responses would do.
completeRecognitionLatestOnly(s, i, resp) ==
    LET s1 == [s EXCEPT !.inFlight = SubSeq(@, 1, i - 1) \o SubSeq(@, i + 1, Len(@))]
    IN  IF i # Len(s.inFlight) THEN s1
        ELSE IF resp.kind = "objects" THEN handleObjectsRecognized(s1, resp.objects)
        ELSE IF resp.kind \in {"wrongField", "noData"} THEN handleError(s1, InvalidMsg)
        ELSE handleError(s1, NetworkMsg)

\* Mutant of completeRecognition: a response without objects counts as an
\* empty detection list.
completeRecognitionLenient(s, i, resp) ==
    LET s1 == [s EXCEPT !.inFlight = SubSeq(@, 1, i - 1) \o SubSeq(@, i + 1, Len(@))]
    IN  IF resp.kind \in {"objects", "wrongField", "noData"}
        THEN handleObjectsRecognized(s1, resp.objects)
        ELSE handleError(s1, NetworkMsg)

\* Mutant of completeRecognition: a failed request is sent again.
completeRecognitionRetries(s, i, resp) ==
    LET s1 == [s EXCEPT !.inFlight = SubSeq(@, 1, i - 1) \o SubSeq(@, i + 1, Len(@))]
    IN  IF resp.kind = "objects" THEN handleObjectsRecognized(s1, resp.objects)
        ELSE [Call(s1, "post") EXCEPT !.inFlight = Append(@, s.inFlight[i])]

\* Mutant of completeRecognition: a failed request ends the polling loop.
completeRecognitionStopsOnError(s, i, resp) ==
    LET s1 == [s EXCEPT !.inFlight = SubSeq(@, 1, i - 1) \o SubSeq(@, i + 1, Len(@))]
    IN  IF resp.kind = "objects" THEN handleObjectsRecognized(s1, resp.objects)
        ELSE LET s2 == clearInterval(s1, s1.captureInterval)
             IN  IF resp.kind \in {"wrongField", "noData"} THEN handleError(s2, InvalidMsg)
                 ELSE handleError(s2, NetworkMsg)

\* The rest of captureAndRecognize, run when the awaited post settles.
completeRecognition(s, i, resp) ==
    LET s1 == [s EXCEPT !.inFlight = SubSeq(@, 1, i - 1) \o SubSeq(@, i + 1, Len(@))]
    IN  IF resp.kind = "objects" THEN handleObjectsRecognized(s1, resp.objects)
        ELSE IF resp.kind \in {"wrongField", "noData"} THEN handleError(s1, InvalidMsg)
        ELSE handleError(s1, NetworkMsg)

\* ------------------------------------------------------ render and effects
Latest(s, v, cur) == IF s.pending[v] = <<>> THEN cur ELSE s.pending[v][1]

\* A render commits every queued update; component state exists while mounted.
commit(s) ==
    [s EXCEPT
        !.recognizedObjects = Latest(s, "recognizedObjects", @),
        !.isRecognizing = Latest(s, "isRecognizing", @),
        !.error = Latest(s, "error", @),
        !.isCapturing = Latest(s, "isCapturing", @),
        !.captureInterval = IF s.mounted THEN Latest(s, "captureInterval", @) ELSE @,
        !.isCameraReady = IF s.mounted THEN Latest(s, "isCameraReady", @) ELSE @,
        !.pending = NoPending]

\* Mutant of refEffect: the ref keeps the value it was created with.
refEffectStale(s) == s

\* useEffect(() => { isCapturingRef.current = isCapturing }, [isCapturing])
refEffect(s) == [s EXCEPT !.isCapturingRef = s.isCapturing]

\* Cleanup of useEffect(..., [captureInterval]); ci is the captureInterval of
\* the render that created the effect.
intervalCleanup(s, ci) ==
    IF ci # Null THEN SetState(clearInterval(s, ci), "captureInterval", Null) ELSE s

\* Mutant of resumeEffect: no interval is set up on mount.
resumeEffectOff(s, frame) == s

\* useEffect(..., [isCapturing, captureInterval, isCameraReady, captureAndRecognize])
resumeEffect(s, frame) ==
    IF s.isCapturing /\ s.captureInterval = Null /\ s.isCameraReady
    THEN LET id == nextTimer(s)
             s1 == SetState(setInterval(s, "resume"), "captureInterval", id)
         IN  captureAndRecognize(s1, frame)
    ELSE s

\* Cleanups of the effects whose dependencies changed, then the effects.
runEffects(old, s, frame) ==
    LET s1 == IF s.captureInterval # old.captureInterval
              THEN intervalCleanup(s, old.captureInterval) ELSE s
    IN  resumeEffect(refEffect(s1), frame)

render(s, frame) ==
    LET s1 == Call(s, "render")
    IN  IF s.mounted THEN runEffects(s, commit(s1), frame) ELSE commit(s1)

\* ------------------------------------------------- WebcamCapture handlers
\* Mutant of startCapturing: the "already capturing" check is missing.
startCapturingUnguarded(s, frame) ==
    LET s1 == handleStartCapture(s)
        id == nextTimer(s1)
        s2 == SetState(setInterval(s1, "start"), "captureInterval", id)
    IN  captureAndRecognize(s2, frame)

startCapturing(s, frame) ==
    IF s.isCapturing THEN s
    ELSE LET s1 == handleStartCapture(s)
             id == nextTimer(s1)
             s2 == SetState(setInterval(s1, "start"), "captureInterval", id)
         IN  captureAndRecognize(s2, frame)

\* Mutant of stopCapturing: the "not capturing" check is missing.
stopCapturingUnguarded(s) ==
    LET s1 == handleStopCapture(s)
    IN  IF s1.captureInterval # Null
        THEN SetState(clearInterval(s1, s1.captureInterval), "captureInterval", Null)
        ELSE s1

\* Mutant of stopCapturing: stopping also abandons the requests in flight.
stopCapturingCancels(s) ==
    IF ~s.isCapturing THEN s
    ELSE LET s1 == [handleStopCapture(s) EXCEPT !.inFlight = <<>>]
         IN  IF s1.captureInterval # Null
             THEN SetState(clearInterval(s1, s1.captureInterval), "captureInterval", Null)
             ELSE s1

stopCapturing(s) ==
    IF ~s.isCapturing THEN s
    ELSE LET s1 == handleStopCapture(s)
         IN  IF s1.captureInterval # Null
             THEN SetState(clearInterval(s1, s1.captureInterval), "captureInterval", Null)
             ELSE s1

\* Mutant of toggleCapture: a click always asks to start.
toggleCaptureAlwaysStarts(s, frame) ==
    IF ~s.isCameraReady THEN s ELSE startCapturing(s, frame)

\* Mutant of toggleCapture: the camera-ready check is missing.
toggleCaptureNoReadyCheck(s, frame) ==
    IF s.isCapturing THEN stopCapturing(s) ELSE startCapturing(s, frame)

toggleCapture(s, frame) ==
    IF ~s.isCameraReady THEN s
    ELSE IF s.isCapturing THEN stopCapturing(s) ELSE startCapturing(s, frame)

\* Mutant of handleWebcamError: a camera error also empties the detection list.
handleWebcamErrorClearsObjects(s, name) ==
    SetState(handleError(SetState(s, "isCameraReady", FALSE), WebcamMsg),
             "recognizedObjects", <<>>)

\* Mutant of handleWebcamError: the user sees the classification's message.
handleWebcamErrorSpecific(s, name) ==
    handleError(SetState(s, "isCameraReady", FALSE),
                IF name = "NotAllowedError" THEN "Camera permission denied"
                ELSE IF name = "NotFoundError" THEN "No camera device found"
                ELSE IF name = "NotReadableError" THEN "Camera is in use"
                ELSE WebcamMsg)

handleWebcamError(s, name) ==
    handleError(SetState(s, "isCameraReady", FALSE), WebcamMsg)

handleWebcamInit(s) == SetState(s, "isCameraReady", TRUE)

\* The callback an interval runs: captureAndRecognize itself for the interval
\* of startCapturing, a wrapper that reads the ref first for the resumed one.
intervalCallback(s, kind, frame) ==
    IF kind = "resume" /\ ~s.isCapturingRef THEN s ELSE captureAndRecognize(s, frame)

\* The same callback once its instance is unmounted: webcamRef.current is null
\* and the instance's isCapturingRef keeps its last value.
orphanCallback(s, kind, ref) ==
    IF kind = "resume" /\ ~ref THEN s ELSE Call(s, "captureAndRecognize")

\* The updates a click handler queued are rendered before any other task.
flushSync(s0, s, frame) == IF s.pending = s0.pending THEN s ELSE render(s, frame)

\* Mutant of unmount: teardown also turns the coordinator's flag off.
unmountStops(s) ==
    LET s1 == intervalCleanup(Call(s, "unmount"), s.captureInterval)
    IN  [s1 EXCEPT
            !.mounted = FALSE,
            !.orphans = @ \cup {[id |-> t.id, kind |-> t.kind, ref |-> s.isCapturingRef]
                                   : t \in s1.timers},
            !.timers = {},
            !.captureInterval = Null,
            !.isCameraReady = FALSE,
            !.isCapturingRef = FALSE,
            !.hasUserMedia = FALSE,
            !.isCapturing = FALSE,
            !.pending.captureInterval = <<>>,
            !.pending.isCameraReady = <<>>]

unmount(s) ==
    LET s1 == intervalCleanup(Call(s, "unmount"), s.captureInterval)
    IN  [s1 EXCEPT
            !.mounted = FALSE,
            !.orphans = @ \cup {[id |-> t.id, kind |-> t.kind, ref |-> s.isCapturingRef]
                                   : t \in s1.timers},
            !.timers = {},
            !.captureInterval = Null,
            !.isCameraReady = FALSE,
            !.isCapturingRef = FALSE,
            !.hasUserMedia = FALSE,
            !.pending.captureInterval = <<>>,
            !.pending.isCameraReady = <<>>]

\* A new instance: useState(null), useState(false), useRef(isCapturing).
mount(s, frame) ==
    LET s0 == commit(Call(s, "mount"))
        s1 == [s0 EXCEPT !.mounted = TRUE, !.isCapturingRef = s0.isCapturing]
    IN  resumeEffect(refEffect(s1), frame)

\* ----------------------------------------------------------------- actions
Init ==
    /\ recognizedObjects = <<>>
    /\ isRecognizing = FALSE
    /\ error = NoError
    /\ isCapturing = FALSE
    /\ mounted = TRUE
    /\ captureInterval = Null
    /\ isCameraReady = FALSE
    /\ isCapturingRef = FALSE
    /\ pending = NoPending
    /\ hasUserMedia = FALSE
    /\ timers = {}
    /\ orphans = {}
    /\ inFlight = <<>>
    /\ lastDelivered = <<>>
    /\ last = [op |-> "init", calls |-> <<>>,
               wasCapturing |-> FALSE, wasReady |-> FALSE, idx |-> 0, kind |-> ""]

AnyFrame == Frames \cup {NoFrame}

\* A click on the button (onClick={toggleCapture}).
Toggle ==
    /\ mounted
    /\ \E frame \in AnyFrame :
          Become(flushSync(Cur, toggleCapture(Cur, frame), frame), "toggle", NoInfo)

\* React renders the queued updates.
Render ==
    /\ pending # NoPending
    /\ \E frame \in AnyFrame :
          Become(render(Cur, frame), "render", NoInfo)

\* A scheduled interval fires (every 3000 ms while it is scheduled).
Tick ==
    \E t \in timers, frame \in AnyFrame :
        Become(intervalCallback(Cur, t.kind, frame), "tick",
               [idx |-> t.id, kind |-> t.kind])

\* An interval of an unmounted instance fires: that instance's webcamRef is null.
OrphanTick ==
    \E t \in orphans :
        Become(orphanCallback(Cur, t.kind, t.ref), "orphanTick",
               [idx |-> t.id, kind |-> t.kind])

\* An awaited request settles.
Complete ==
    \E i \in 1..Len(inFlight), resp \in Responses :
        Become([completeRecognition(Cur, i, resp) EXCEPT
                   !.lastDelivered = IF resp.kind = "objects" THEN resp.objects ELSE @],
               "complete", [idx |-> i, kind |-> resp.kind])

\* onUserMedia / onUserMediaError of the Webcam element.
CameraInit ==
    /\ mounted
    /\ Become([handleWebcamInit(Cur) EXCEPT !.hasUserMedia = TRUE], "cameraInit", NoInfo)

CameraError ==
    /\ mounted
    /\ \E name \in CameraErrorNames :
          Become([handleWebcamError(Cur, name) EXCEPT !.hasUserMedia = FALSE],
                 "cameraError", [idx |-> 0, kind |-> name])

Unmount ==
    /\ mounted
    /\ Become(unmount(Cur), "unmount", NoInfo)

Remount ==
    /\ ~mounted
    /\ \E frame \in AnyFrame :
          Become(mount(Cur, frame), "mount", NoInfo)

Next ==
    \/ Toggle
    \/ Render
    \/ Tick
    \/ OrphanTick
    \/ Complete
    \/ CameraInit
    \/ CameraError
    \/ Unmount
    \/ Remount

Spec == Init /\ [][Next]_vars

\* The session's start() and stop() called directly, as toggleCapture calls
\* them from a click: the updates they queue are rendered before the next task.
Start ==
    /\ mounted
    /\ \E frame \in AnyFrame :
          Become(flushSync(Cur, startCapturing(Cur, frame), frame), "start", NoInfo)

Stop ==
    /\ mounted
    /\ \E frame \in AnyFrame :
          Become(flushSync(Cur, stopCapturing(Cur), frame), "stop", NoInfo)

NextApi ==
    \/ Next
    \/ Start
    \/ Stop

SpecApi == Init /\ [][NextApi]_vars

\* --------------------------------------------------- the presenter alone
MaxShown == 2
Labels == {"cat", "dog"}
Confidences == {0, 49999, 50000, 65000, 79999, 80000, 92000, 100000}
Detections == [name : Labels, confidence : Confidences]
DetectionLists == UNION {[1..n -> Detections] : n \in 0..MaxShown}

\* The presenter given any list the service can answer with.
InitPresenter ==
    /\ recognizedObjects \in DetectionLists
    /\ isRecognizing = FALSE
    /\ error = NoError
    /\ isCapturing = FALSE
    /\ mounted = TRUE
    /\ captureInterval = Null
    /\ isCameraReady = FALSE
    /\ isCapturingRef = FALSE
    /\ pending = NoPending
    /\ hasUserMedia = FALSE
    /\ timers = {}
    /\ orphans = {}
    /\ inFlight = <<>>
    /\ lastDelivered = recognizedObjects
    /\ last = [op |-> "init", calls |-> <<>>,
               wasCapturing |-> FALSE, wasReady |-> FALSE, idx |-> 0, kind |-> ""]

\* The presenter renders; calls records the class given to each item.
Present ==
    /\ last.op = "init"
    /\ LET view == ObjectRecognition(recognizedObjects)
       IN  last' = [last EXCEPT
                       !.op = "present",
                       !.idx = view.count,
                       !.kind = IF view.placeholder THEN "no-objects" ELSE "objects-list",
                       !.calls = [i \in 1..Len(view.items) |-> view.items[i].class]]
    /\ UNCHANGED <<recognizedObjects, isRecognizing, error, isCapturing,
                   mounted, captureInterval, isCameraReady, isCapturingRef,
                   pending, hasUserMedia, timers, orphans, inFlight,
                   lastDelivered>>

SpecPresenter == InitPresenter /\ [][Present]_vars

\* ------------------------------------------------------------------ claims
Count(seq, c) == Cardinality({i \in 1..Len(seq) : seq[i] = c})

Has(seq, c) == Count(seq, c) > 0

\* Every variable but the record of the last task.
stateVars == <<recognizedObjects, isRecognizing, error, isCapturing,
               mounted, captureInterval, isCameraReady, isCapturingRef,
               pending, hasUserMedia, timers, orphans, inFlight, lastDelivered>>

Scheduled == {t.id : t \in timers \cup orphans}

\* C1: in every reachable state at most one recurring capture timer is
\* scheduled, across toggles, renders, camera events, ticks, unmount and remount.
AtMostOneTimer == Cardinality(Scheduled) <= 1

\* C2: a toggle pressed while the camera is ready and the session inactive
\* notifies onStartCapture once and, in the same task, its immediate acquisition
\* reaches onRecognitionStart and the request (unless the camera had no frame).
ImmediateRecognitionOnStart ==
    (last.op = "toggle" /\ last.wasReady /\ ~last.wasCapturing)
        => /\ Count(last.calls, "onStartCapture") = 1
           /\ \/ Has(last.calls, "onRecognitionStart") /\ Has(last.calls, "post")
              \/ Has(last.calls, "logger.warn")

StopIdempotent ==
    [][last'.op = "stop" =>
          IF ~isCapturing
          THEN last'.calls = <<>> /\ UNCHANGED stateVars
          ELSE /\ Count(last'.calls, "onStopCapture") = 1
               /\ ~isCapturing'
               /\ timers' \subseteq timers
               /\ Cardinality(timers \ timers') <= 1]_vars

StopTwiceWitness ==
    /\ last.op = "stop"
    /\ ~last.wasCapturing
    /\ last.calls = <<>>
    /\ timers = {}
    /\ isCameraReady

\* The last task scheduled an interval from the resume effect, not from start().
Resumed == Has(last.calls, "setInterval") /\ ~Has(last.calls, "onStartCapture")

\* C5: with the external flag true, once the camera is ready the instance has
\* its recurring action, established by the resume effect together with one
\* immediate acquisition that passes the flag check, with no start() call.
ResumeOnCreate ==
    /\ (mounted /\ isCapturing /\ isCameraReady) => Cardinality(timers) = 1
    /\ Resumed =>
          /\ last.op \in {"render", "toggle", "start", "stop", "mount"}
          /\ Count(last.calls, "captureAndRecognize") = 1
          /\ Count(last.calls, "getScreenshot") = 1
          /\ Has(last.calls, "post") \/ Has(last.calls, "logger.warn")

ResumeWitness ==
    /\ last.op = "render"
    /\ Resumed
    /\ Has(last.calls, "post")
    /\ timers = {[id |-> 1, kind |-> "resume"]}
    /\ isCapturing /\ isCameraReady

\* C6: after an unmount no recurring action of the unmounted instance remains
\* scheduled, whenever the unmount happens.
TeardownCancelsTimer == ~mounted => Scheduled = {}

\* C7: a toggle pressed while isCameraReady is false changes no state, invokes
\* no callback, creates or cancels no timer and runs no acquisition.
ToggleIgnoredUntilReady ==
    [][(last'.op = "toggle" /\ ~isCameraReady) =>
          (last'.calls = <<>> /\ UNCHANGED stateVars)]_vars

ToggleIgnoredWitness ==
    /\ last.op = "toggle"
    /\ ~last.wasReady
    /\ last.calls = <<>>
    /\ error = WebcamMsg
    /\ isCapturing
    /\ timers # {}

\* C8: while the active flag is false no recognition attempt begins: a tick
\* (also of a timer scheduled while the flag was true), a render or a mount
\* reads the current flag and stops before the frame is taken.
NoAttemptWhileInactive ==
    (last.op \in {"tick", "orphanTick", "render", "mount"} /\ ~last.wasCapturing)
        => \A c \in {"getScreenshot", "onRecognitionStart", "post",
                     "onObjectsRecognized", "onError"} : ~Has(last.calls, c)

TickWhileInactiveWitness ==
    /\ last.op = "tick"
    /\ ~last.wasCapturing
    /\ ~isCapturing
    /\ timers # {}
    /\ isCameraReady /\ hasUserMedia
    /\ ~Has(last.calls, "getScreenshot")

\* C9: stop() cancels no request in flight; a request that settles while the
\* session is inactive still delivers its outcome to the coordinator, and the
\* next render applies it to the displayed state.
InFlightOutcomeAppliedAfterStop ==
    [][/\ (last'.op \in {"toggle", "stop"} /\ Has(last'.calls, "onStopCapture"))
            => inFlight' = inFlight
       /\ (last'.op = "complete" /\ ~isCapturing) =>
            /\ Len(inFlight') = Len(inFlight) - 1
            /\ IF last'.kind = "objects"
               THEN /\ last'.calls = <<"onObjectsRecognized">>
                    /\ pending'.recognizedObjects = <<lastDelivered'>>
               ELSE /\ last'.calls = <<"onError">>
                    /\ pending'.error \in {<<InvalidMsg>>, <<NetworkMsg>>}
       /\ (last'.op = "render" /\ ~isCapturing) =>
            /\ pending.recognizedObjects # <<>>
                  => recognizedObjects' = pending.recognizedObjects[1]
            /\ pending.error # <<>> => error' = pending.error[1]]_vars

OutcomeAfterStopWitness ==
    /\ last.op = "render"
    /\ ~last.wasCapturing
    /\ ~isCapturing
    /\ recognizedObjects = <<Dog, Cat>>
    /\ lastDelivered = <<Dog, Cat>>
    /\ timers = {}
    /\ inFlight # <<>>

\* C10: requests overlap and settle in any order; once rendered, the displayed
\* list is the list of the successful request that settled last.
LastCompletionWins ==
    /\ pending.recognizedObjects = <<>> => recognizedObjects = lastDelivered
    /\ pending.recognizedObjects # <<>>
          => pending.recognizedObjects = <<lastDelivered>>

OutOfOrderWitness ==
    /\ last.op = "complete"
    /\ last.idx = 2
    /\ last.kind = "objects"
    /\ Len(inFlight) = 1
    /\ pending.recognizedObjects = << <<Dog, Cat>> >>
    /\ recognizedObjects = <<>>

\* C11: a failed recognition (transport failure or malformed response) is
\* reported through onError and leaves the loop running: the flag, the interval
\* and its handle are untouched, and a tick while active takes a frame again
\* whatever the previous outcome was.
FailureKeepsLoopRunning ==
    [][/\ (last'.op = "complete" /\ last'.kind # "objects") =>
            /\ last'.calls = <<"onError">>
            /\ isCapturing' = isCapturing
            /\ pending'.isCapturing = <<>>
            /\ timers' = timers
            /\ captureInterval' = captureInterval
            /\ pending'.captureInterval = pending.captureInterval
       /\ (last'.op = "tick" /\ isCapturing) =>
            /\ Has(last'.calls, "getScreenshot")
            /\ Has(last'.calls, "post") \/ Has(last'.calls, "logger.warn")]_vars

TickAfterFailureWitness ==
    /\ last.op = "tick"
    /\ Has(last.calls, "post")
    /\ error = NetworkMsg
    /\ isCapturing
    /\ Cardinality(timers) = 1
    /\ Len(inFlight) = 1

\* C12: when captureAndRecognize runs while active and no frame can be taken
\* (getScreenshot returns null, or the instance's device handle is gone) it
\* calls no callback and changes no state: the session stays active with its
\* timer scheduled.
NoFrameAbortsSilently ==
    [][/\ (last'.op = "tick" /\ isCapturing
              /\ (~hasUserMedia \/ Has(last'.calls, "logger.warn"))) =>
            /\ last'.calls = <<"captureAndRecognize", "getScreenshot", "logger.warn">>
            /\ UNCHANGED stateVars
       /\ last'.op = "orphanTick" =>
            /\ \A i \in 1..Len(last'.calls) : last'.calls[i] = "captureAndRecognize"
            /\ UNCHANGED stateVars]_vars

NoFrameWitness ==
    /\ last.op = "tick"
    /\ last.calls = <<"captureAndRecognize", "getScreenshot", "logger.warn">>
    /\ isCapturing
    /\ hasUserMedia
    /\ Cardinality(timers) = 1
    /\ error = NoError

OneRequestOneCallback ==
    [][/\ Count(last'.calls, "post") <= Count(last'.calls, "captureAndRecognize")
       /\ Len(inFlight') = Len(inFlight) + Count(last'.calls, "post")
                              - (IF last'.op = "complete" THEN 1 ELSE 0)
       /\ last'.op = "complete" =>
            /\ ~Has(last'.calls, "post")
            /\ Count(last'.calls, "onObjectsRecognized")
                  + Count(last'.calls, "onError") = 1
       /\ last'.op # "complete" => ~Has(last'.calls, "onObjectsRecognized")]_vars

NoRetryWitness ==
    /\ last.op = "complete"
    /\ last.kind = "rejected"
    /\ last.calls = <<"onError">>
    /\ last.idx = 1
    /\ Len(inFlight) = 1

\* C15: a camera error of any classification queues isCameraReady = false and
\* reports exactly one onError carrying the same generic message; a successful
\* initialization queues isCameraReady = true and reports nothing; the next
\* render of the mounted component commits the queued value.
CameraErrorIsGeneric ==
    [][/\ last'.op = "cameraError" =>
            /\ last'.kind \in CameraErrorNames
            /\ last'.calls = <<"onError">>
            /\ pending'.error = <<WebcamMsg>>
            /\ pending'.isCameraReady = <<FALSE>>
       /\ last'.op = "cameraInit" =>
            /\ last'.calls = <<>>
            /\ pending'.isCameraReady = <<TRUE>>
            /\ pending'.error = pending.error
       /\ (last'.op = "render" /\ mounted /\ pending.isCameraReady # <<>>) =>
            isCameraReady' = pending.isCameraReady[1]]_vars

CameraBusyWitness ==
    /\ last.op = "cameraError"
    /\ last.kind = "NotReadableError"
    /\ last.wasReady
    /\ pending.error = <<WebcamMsg>>
    /\ pending.isCameraReady = <<FALSE>>

\* C16: the flag and the timer converge within one render pass: once every
\* queued update is rendered, a mounted instance whose flag is true and whose
\* camera is ready has its interval, and one whose flag is false has none.
FlagAndTimerConverge ==
    (mounted /\ pending = NoPending) =>
        /\ (isCapturing /\ isCameraReady) => Cardinality(timers) = 1
        /\ ~isCapturing => timers = {}

\* C17: the presenter gives every item exactly one tier by fixed thresholds,
\* inclusive on the upper side: confidence >= 0.8 is high, 0.5 <= confidence
\* < 0.8 is medium, confidence < 0.5 is low.
TiersByThreshold ==
    last.op = "present" =>
        /\ Len(last.calls) = Len(recognizedObjects)
        /\ \A i \in 1..Len(recognizedObjects) :
              LET c == recognizedObjects[i].confidence
              IN  /\ c \in 0..100000
                  /\ (last.calls[i] = "high-confidence") <=> (c >= 80000)
                  /\ (last.calls[i] = "medium-confidence") <=> (c >= 50000 /\ c < 80000)
                  /\ (last.calls[i] = "low-confidence") <=> (c < 50000)
                  /\ last.calls[i] \in
                        {"high-confidence", "medium-confidence", "low-confidence"}

TierBoundaryWitness ==
    /\ last.op = "present"
    /\ Len(recognizedObjects) = 2
    /\ recognizedObjects[1].confidence = 80000
    /\ last.calls[1] = "high-confidence"
    /\ recognizedObjects[2].confidence = 50000
    /\ last.calls[2] = "medium-confidence"

\* What the results section shows in the current state.
View == ResultsSection(Cur)

\* C18 as stated: after a response with the wrong field name is reported and
\* rendered, the presenter shows the empty-state placeholder.
WrongFieldShowsPlaceholder ==
    [][(last.op = "complete" /\ last.kind = "wrongField" /\ last'.op = "render")
          => View'.results.placeholder]_vars

\* C18 amended: a response with the wrong field name is reported through
\* onError alone and leaves the stored detection list untouched; once rendered,
\* the error message is shown and the presenter shows the list of the last
\* successful recognition, so the placeholder appears exactly when that list
\* is empty (or none was ever delivered).
WrongFieldKeepsLastList ==
    [][/\ (last'.op = "complete" /\ last'.kind = "wrongField") =>
            /\ last'.calls = <<"onError">>
            /\ pending'.error = <<InvalidMsg>>
            /\ pending'.recognizedObjects = pending.recognizedObjects
            /\ recognizedObjects' = recognizedObjects
            /\ lastDelivered' = lastDelivered
       /\ (last.op = "complete" /\ last.kind = "wrongField" /\ last'.op = "render") =>
            /\ View'.error = InvalidMsg
            /\ ~View'.recognizing
            /\ View'.results.placeholder <=> (lastDelivered' = <<>>)
            /\ View'.results.count = Len(lastDelivered')
            /\ \A i \in 1..Len(lastDelivered') :
                  View'.results.items[i].name = lastDelivered'[i].name]_vars

WrongFieldAfterSuccessWitness ==
    /\ last.op = "complete"
    /\ last.kind = "wrongField"
    /\ pending.error = <<InvalidMsg>>
    /\ pending.recognizedObjects = <<>>
    /\ recognizedObjects = <<Dog, Cat>>
    /\ lastDelivered = <<Dog, Cat>>
    /\ ObjectRecognition(recognizedObjects).count = 2

\* C19: a successful response's list is stored as it came and, once rendered
\* and shown, the presenter has one item per element, in the response's
\* order, with the element's name and confidence, whatever the confidence.
DetectionsShownVerbatim ==
    /\ pending.recognizedObjects # <<>> => pending.recognizedObjects = <<lastDelivered>>
    /\ (last.op = "complete" /\ last.kind = "objects") =>
          last.calls = <<"onObjectsRecognized">>
    /\ (pending.recognizedObjects = <<>> /\ ~isRecognizing) =>
          /\ View.results.count = Len(lastDelivered)
          /\ Len(View.results.items) = Len(lastDelivered)
          /\ \A i \in 1..Len(lastDelivered) :
                /\ View.results.items[i].name = lastDelivered[i].name
                /\ View.results.items[i].width = lastDelivered[i].confidence

LowConfidenceFirstWitness ==
    /\ last.op = "render"
    /\ ~isRecognizing
    /\ pending.recognizedObjects = <<>>
    /\ lastDelivered = <<Dog, Cat>>
    /\ View.results.items[1].name = "dog"
    /\ View.results.items[1].class = "low-confidence"
    /\ View.results.items[2].name = "cat"

\* C20: the coordinator's isCapturing changes only in a click that reaches
\* start or stop; teardown, remount, camera init and error, ticks, renders
\* and recognition outcomes neither change it nor queue a change to it.
FlagChangedOnlyByToggle ==
    [][/\ isCapturing' # isCapturing =>
            /\ last'.op = "toggle"
            /\ IF isCapturing'
               THEN Has(last'.calls, "onStartCapture")
               ELSE Has(last'.calls, "onStopCapture")
       /\ pending'.isCapturing = <<>>
       /\ last'.op \in {"unmount", "mount", "cameraInit", "cameraError", "tick",
                        "orphanTick", "complete", "render"} =>
            isCapturing' = isCapturing]_vars

RemountKeepsFlagWitness ==
    /\ last.op = "mount"
    /\ last.wasCapturing
    /\ isCapturing

\* C21: with the camera ready, a click while inactive starts and the next
\* click stops: after two consecutive clicks (each rendered) the flag is false
\* again, the instance has no interval and holds no interval id, and the
\* intervals of earlier instances are as they were, so that no interval is
\* scheduled if none was before.
ToggleTwiceRestores ==
    [][/\ (last'.op = "toggle" /\ last'.wasReady) =>
            /\ ~last'.wasCapturing => Has(last'.calls, "onStartCapture")
            /\ last'.wasCapturing => Has(last'.calls, "onStopCapture")
            /\ isCapturing' = ~isCapturing
       /\ (/\ last.op = "toggle" /\ last.wasReady /\ ~last.wasCapturing
           /\ last'.op = "toggle" /\ last'.wasReady) =>
            /\ ~isCapturing'
            /\ timers' = {}
            /\ captureInterval' = Null
            /\ pending'.captureInterval \in {<<>>, <<Null>>}
            /\ orphans' = orphans
            /\ inFlight' = inFlight]_vars

StartThenStopWitness ==
    /\ last.op = "toggle"
    /\ last.wasReady
    /\ last.wasCapturing
    /\ last.calls = <<"onStopCapture", "clearInterval", "render", "clearInterval">>
    /\ ~isCapturing
    /\ Scheduled = {}
    /\ inFlight = <<>>
    /\ recognizedObjects = <<>>
    /\ error = NoError

\* C22: every request is sent right after one onRecognitionStart of the same
\* attempt, and every recognition outcome (onObjectsRecognized, or onError
\* that is not a camera error) settles one request that was sent that way:
\* the attempts started and not yet settled are exactly the requests in flight.
StartPrecedesRequestAndOutcome ==
    [][/\ \A i \in 1..Len(last'.calls) :
             /\ last'.calls[i] = "post" =>
                   (i > 1 /\ last'.calls[i - 1] = "onRecognitionStart")
             /\ last'.calls[i] = "onRecognitionStart" =>
                   (i < Len(last'.calls) /\ last'.calls[i + 1] = "post")
       /\ Len(inFlight') = Len(inFlight) + Count(last'.calls, "onRecognitionStart")
                              - (IF last'.op = "complete" THEN 1 ELSE 0)
       /\ Has(last'.calls, "onObjectsRecognized") => last'.op = "complete"
       /\ Has(last'.calls, "onError") => last'.op \in {"complete", "cameraError"}
       /\ last'.op = "complete" =>
             /\ Len(inFlight) >= 1
             /\ last'.idx \in 1..Len(inFlight)
             /\ ~Has(last'.calls, "onRecognitionStart")]_vars

OutcomeOfStartedAttemptWitness ==
    /\ last.op = "complete"
    /\ last.idx = 1
    /\ last.kind = "rejected"
    /\ last.calls = <<"onError">>
    /\ Len(inFlight) = 1
    /\ pending.isRecognizing = <<FALSE>>

\* C23: counting a queued update as applied, the coordinator's isRecognizing
\* is true exactly when at least one recognition request is in flight.
RecognizingIffInFlight ==
    Latest(Cur, "isRecognizing", isRecognizing) <=> (Len(inFlight) >= 1)

\* C24: when a successful recognition result has just been applied, the
\* coordinator's error (counting a queued update as applied) is null, so that
\* no error message is shown with a detection list delivered after it.
NoErrorWithLaterResult ==
    (last.op = "complete" /\ last.kind = "objects") =>
        Latest(Cur, "error", error) = NoError

\* The detection list once every queued update is applied.
LatestList == Latest(Cur, "recognizedObjects", recognizedObjects)

\* C25: a step that reports an error (a failed recognition or a camera error)
\* changes neither the stored detection list nor a queued one; the list
\* changes only by onObjectsRecognized; and when the error is rendered the
\* presenter still shows the list of the last successful recognition.
ErrorKeepsDetections ==
    [][/\ Has(last'.calls, "onError") =>
            /\ last'.op \in {"complete", "cameraError"}
            /\ ~Has(last'.calls, "onObjectsRecognized")
            /\ pending'.recognizedObjects = pending.recognizedObjects
            /\ recognizedObjects' = recognizedObjects
            /\ lastDelivered' = lastDelivered
       /\ LatestList' # LatestList =>
            /\ last'.calls = <<"onObjectsRecognized">>
            /\ last'.kind = "objects"
       /\ (Has(last.calls, "onError") /\ last'.op = "render") =>
            /\ View'.error \in {InvalidMsg, NetworkMsg, WebcamMsg}
            /\ ~View'.recognizing
            /\ View'.results = ObjectRecognition(LatestList)
            /\ View'.results.count = Len(lastDelivered)]_vars

FailureAfterSuccessWitness ==
    /\ last.op = "complete"
    /\ last.kind = "rejected"
    /\ last.calls = <<"onError">>
    /\ pending.error = <<NetworkMsg>>
    /\ pending.recognizedObjects = <<>>
    /\ recognizedObjects = <<Dog, Cat>>
    /\ ~isRecognizing

====
